---------------------------- MODULE Spec2Model ----------------------------
(***************************************************************************)
(* A model of the PyECS runtime (src/ecs/generics.py, src/ecs/utils.py)    *)
(* and of the parts of the sample game that exercise it.                    *)
(*                                                                         *)
(* Scene, Entity, EntityCollection and System objects are modelled by      *)
(* their fields.  Every method is one action; a method that runs user code *)
(* in the middle (Scene.update runs System.update, System.handle_signals   *)
(* runs the handlers) is a sequence of steps with a program counter, so    *)
(* that the calls user code makes while it runs interleave as they do in   *)
(* the program.  A Python exception ends the call that raised it and every *)
(* call around it (the repository has no try/except); the state is left as *)
(* the statements executed before the raise made it, and `outcome` names   *)
(* the exception.                                                          *)
(***************************************************************************)
EXTENDS Integers, Sequences, FiniteSets

\* ------------------------------------------------------------------ bounds

\* Number of component kinds registered with COMPONENT_SIGNATURE_MANAGER: the
\* sample's Position, Health, Damage, Score and PlayerController.
NumKinds == 5

\* Number of component instances that exist: one of each kind and a second
\* Position.
NumComponents == 6

\* Number of entities that exist (constructed, attached to a scene or not).
NumEntities == 2

\* Longest component list an entity is given.
MaxComponents == 4

\* Number of System instances that exist (in a scene's list or not).
NumSystems == 3

\* Number of Signal objects constructed in a run.
MaxSignals == 2

\* Number of signature bits of the handler tables and signals that
\* _retrieve_handler is tried on.
SignatureBits == 5

\* Longest handler category _retrieve_handler is tried on.
MaxHandlers == 2

\* Largest signature get_atomic_signatures is tried on.
MaxSignature == 100

VARIABLES
    \* Entity fields, per entity
    signature,           \* Entity.signature
    components,          \* Entity.components, a list of component instances
    removed,             \* Entity.removed
    \* Component fields, per component instance that has them
    position,            \* Position.x and Position.y, as <<x, y>>
    health,              \* Health.health
    \* EntityCollection (CachedCollection) fields of scene.entities
    objects,             \* Collection.objects: the ids, in dict (insertion) order
    filter_cache,        \* CachedCollection._filter_cache
    affected,            \* CachedCollection._affected_signatures_since_last_clear
    \* Scene fields
    systems,             \* Scene._systems
    entities_to_add,     \* Scene._entities_to_add (a FIFO queue)
    entities_to_delete,  \* Scene._entities_to_delete (a FIFO queue)
    \* System fields, per system
    enabled,             \* System.enabled
    signals,             \* System.signals, the inbox (a FIFO queue of signals)
    \* the system whose handle_signals is running (0: none)
    handling,
    handled,             \* the handler calls made so far: system, signal, handler
    created,             \* how many Signal objects were constructed so far
    \* the arguments of the last propagate_signal call, and the system whose
    \* handle_signals call it was made in (0: none)
    propagated,
    \* where Scene.update is: "idle" (not running), "loop" (at the head of
    \* its for loop) or "system" (inside cur's update)
    pc,
    idx,                 \* the for loop's list iterator: elements consumed
    cur,                 \* the system whose update is running (0: none)
    updated,             \* the systems whose update this Scene.update called, in order
    added,               \* the systems of the list in the order they were added
    \* the outcome of the last completed call: "ok" (returned None), "0" or
    \* "1" (Scene.update's return value) or the name of the exception raised
    outcome,
    \* the last call of a method that only computes a value: its name and
    \* arguments, and the value it returned
    args,
    result

vars == <<signature, components, removed, position, health, objects, filter_cache, affected,
          systems, entities_to_add, entities_to_delete, enabled,
          signals, handling, handled, created, propagated,
          pc, idx, cur, updated, added, outcome, args, result>>

componentVars == <<position, health>>
entityVars == <<signature, components, removed, componentVars>>
registryVars == <<objects, filter_cache, affected>>
queueVars == <<entities_to_add, entities_to_delete>>
inboxVars == <<signals, handling, handled, created, propagated>>
systemVars == <<systems, enabled, added, inboxVars>>
loopVars == <<pc, idx, cur, updated>>
callVars == <<args, result>>

Entities == 1..NumEntities
Components == 1..NumComponents
Kinds == 0..(NumKinds - 1)
Systems == 1..NumSystems

\* The elements of a list.
Range(list) == {list[i] : i \in 1..Len(list)}

\* ------------------------------------------------------- integers as bits

RECURSIVE BitAnd(_, _)
\* Python's a & b on non-negative integers.
BitAnd(a, b) ==
    IF a = 0 \/ b = 0 THEN 0
    ELSE 2 * BitAnd(a \div 2, b \div 2) + (IF a % 2 = 1 /\ b % 2 = 1 THEN 1 ELSE 0)

RECURSIVE BitOr(_, _)
\* Python's a | b on non-negative integers.
BitOr(a, b) ==
    IF a = 0 THEN b
    ELSE IF b = 0 THEN a
    ELSE 2 * BitOr(a \div 2, b \div 2) + (IF a % 2 = 1 \/ b % 2 = 1 THEN 1 ELSE 0)

\* ------------------------------------------------------------ ecs/utils.py

\* check_signature(signature, contains)
check_signature(sig, contains) == BitAnd(sig, contains) = contains

RECURSIVE atomic_from_below(_, _)
\* atomic_from as it would be with the loop test `atom < signature`.
atomic_from_below(sig, atom) ==
    IF atom >= sig THEN <<>>
    ELSE (IF check_signature(sig, atom) THEN <<atom>> ELSE <<>>)
         \o atomic_from_below(sig, 2 * atom)

RECURSIVE atomic_from(_, _)
\* The while loop of get_atomic_signatures, from the current atom on.
atomic_from(sig, atom) ==
    IF atom <= sig
    THEN (IF check_signature(sig, atom) THEN <<atom>> ELSE <<>>)
         \o atomic_from(sig, 2 * atom)
    ELSE <<>>

\* get_atomic_signatures(signature)
get_atomic_signatures(sig) == atomic_from(sig, 1)

\* SignatureManager.next_signature: the n-th call (from 0) returns 1 << n.
next_signature(n) == 2 ^ n

\* -------------------------------------------------- component instances

\* The component classes of simplesample/components.py, numbered in the
\* order in which they call COMPONENT_SIGNATURE_MANAGER.next_signature().
Position == 0
Health == 1
Damage == 2
Score == 3

\* The PlayerController class that entities.py and systems.py import from
\* simplesample.components.  The file does not define it; it is taken to be
\* a Component subclass with a SIGNATURE of its own, registered after the
\* four classes the file has, and with no fields (no x, no y).
PlayerController == 4

\* The class of component instance c: its kind, in registration order.
KindOf(c) == (c - 1) % NumKinds

\* The n-th instance (from 0) of kind k.
Instance(k, n) == n * NumKinds + k + 1

\* Component.SIGNATURE of instance c: the bit its class got at registration.
SIGNATURE(c) == next_signature(KindOf(c))

\* Position is the only class that defines __eq__.
IsPosition(c) == KindOf(c) = Position

\* The (x, y) a Position instance is constructed with; the first two
\* Position instances are given the same coordinates.
InitialPosition(c) == <<((c - 1) \div NumKinds) \div 2, 0>>

\* The health a Health instance is constructed with: Health(self, 10, 10).
InitialHealth == 10

\* The damage a Damage instance is constructed with: Damage(self, 1).
DamageOf(c) == 1

\* Component.__init__ and its extensions, for every component instance: the
\* fields of the instances that have fields the handlers read and write.
InitComponents ==
    /\ position = [c \in {d \in Components : IsPosition(d)} |-> InitialPosition(c)]
    /\ health = [c \in {d \in Components : KindOf(d) = Health} |-> InitialHealth]

\* The outcome of Python's `el == x` for two distinct instances: "True",
\* "False", or "AttributeError" when Position.__eq__ reads .x of an object
\* that has none.  object.__eq__ returns NotImplemented for distinct
\* objects, so Python then tries the reflected Position.__eq__(x, el).
PyEq(el, x) ==
    IF IsPosition(el) /\ IsPosition(x)
    THEN (IF position[el] = position[x] THEN "True" ELSE "False")
    ELSE IF IsPosition(el) \/ IsPosition(x) THEN "AttributeError"
    ELSE "False"

RECURSIVE list_remove_from(_, _, _)
\* list.remove(x) scanning from index i: the index of the first element that
\* is x or compares equal to x, 0 when the scan ends without one (ValueError)
\* and -1 when a comparison raises (AttributeError).
list_remove_from(list, x, i) ==
    IF i > Len(list) THEN 0
    ELSE IF list[i] = x THEN i
    ELSE IF PyEq(list[i], x) = "True" THEN i
    ELSE IF PyEq(list[i], x) = "AttributeError" THEN -1
    ELSE list_remove_from(list, x, i + 1)

\* list without its i-th element.
RemoveAt(list, i) == SubSeq(list, 1, i - 1) \o SubSeq(list, i + 1, Len(list))

\* list.remove(x): the list afterwards and the exception raised, if any.
list_remove(list, x) ==
    LET i == list_remove_from(list, x, 1)
    IN  IF i = 0 THEN [list |-> list, exc |-> "ValueError"]
        ELSE IF i = -1 THEN [list |-> list, exc |-> "AttributeError"]
        ELSE [list |-> RemoveAt(list, i), exc |-> ""]

\* ------------------------------------- how a call ends inside Scene.update

\* The call returns to its caller: Scene.update, if running, goes on.
Returns == UNCHANGED loopVars

\* The call raises: the exception leaves every call around it, Scene.update
\* included (its iterator is gone with it).
Raises == pc' = "idle" /\ idx' = 0 /\ cur' = 0 /\ UNCHANGED updated

\* User code (a system's update, or the program around the scene) is running
\* and may call the scene: Scene.update is not at the head of its own loop
\* and no handle_signals call is between two signals.
UserCode == pc \in {"idle", "system"} /\ handling = 0

\* No value-computing method was called yet.
NoCall == args = [op |-> "none"] /\ result = [done |-> FALSE]

\* --------------------------------------------------------------- Entity

RECURSIVE calculate_signature(_)
\* Entity._calculate_signature: the OR over the component list.
calculate_signature(list) ==
    IF list = <<>> THEN 0
    ELSE BitOr(calculate_signature(SubSeq(list, 1, Len(list) - 1)),
               SIGNATURE(list[Len(list)]))

\* Entity.add_component(component)
add_component(e, c) ==
    /\ UserCode
    /\ Len(components[e]) < MaxComponents
    /\ signature' = [signature EXCEPT ![e] = BitOr(@, SIGNATURE(c))]
    /\ components' = [components EXCEPT ![e] = Append(@, c)]
    /\ outcome' = "ok"
    /\ UNCHANGED <<removed, componentVars, registryVars, queueVars, systemVars, loopVars>>

\* Entity.remove_component(component_to_remove)
remove_component(e, c) ==
    LET r == list_remove(components[e], c)
    IN  /\ UserCode
        /\ components' = [components EXCEPT ![e] = r.list]
        /\ signature' = [signature EXCEPT ![e] =
                            IF r.exc = "" THEN calculate_signature(r.list) ELSE @]
        /\ outcome' = IF r.exc = "" THEN "ok" ELSE r.exc
        /\ IF r.exc = "" THEN Returns ELSE Raises
        /\ UNCHANGED <<removed, componentVars, registryVars, queueVars, systemVars>>

RECURSIVE remove_all(_, _)
\* The for loop of remove_components: each list.remove in turn, stopping at
\* the first that raises.
remove_all(list, to_remove) ==
    IF to_remove = <<>> THEN [list |-> list, exc |-> ""]
    ELSE LET r == list_remove(list, Head(to_remove))
         IN  IF r.exc # "" THEN r ELSE remove_all(r.list, Tail(to_remove))

\* Entity.remove_components(components_to_remove)
remove_components(e, cs) ==
    LET r == remove_all(components[e], cs)
    IN  /\ UserCode
        /\ components' = [components EXCEPT ![e] = r.list]
        /\ signature' = [signature EXCEPT ![e] =
                            IF r.exc = "" THEN calculate_signature(r.list) ELSE @]
        /\ outcome' = IF r.exc = "" THEN "ok" ELSE r.exc
        /\ IF r.exc = "" THEN Returns ELSE Raises
        /\ UNCHANGED <<removed, componentVars, registryVars, queueVars, systemVars>>

\* Entity.__init__, for every entity: no components, signature 0.
InitEntities ==
    /\ signature = [e \in Entities |-> 0]
    /\ components = [e \in Entities |-> <<>>]
    /\ removed = [e \in Entities |-> FALSE]
    /\ InitComponents

\* get_components_by_signature as it would be with check_signature's
\* arguments swapped.
components_by_signature_swapped(list, sig) ==
    SelectSeq(list, LAMBDA c : check_signature(SIGNATURE(c), sig))

RECURSIVE components_by_signature(_, _)
\* The loop of Entity.get_components_by_signature(signature) over a list of
\* components: the result list.
components_by_signature(list, sig) ==
    IF list = <<>> THEN <<>>
    ELSE LET before == components_by_signature(SubSeq(list, 1, Len(list) - 1), sig)
             component == list[Len(list)]
         IN  IF check_signature(sig, SIGNATURE(component))
             THEN Append(before, component)
             ELSE before

RECURSIVE component_by_signature(_, _, _)
\* The loop of Entity.get_component_by_signature(signature) from index i:
\* the component returned (0: None).
component_by_signature(list, sig, i) ==
    IF i > Len(list) THEN 0
    ELSE IF check_signature(sig, SIGNATURE(list[i])) THEN list[i]
    ELSE component_by_signature(list, sig, i + 1)

\* Entity.get_components_by_signature(signature)
get_components_by_signature(e, sig) ==
    /\ UserCode
    /\ args' = [op |-> "get_components_by_signature", entity |-> e, signature |-> sig]
    /\ result' = [done |-> TRUE, value |-> components_by_signature(components[e], sig)]
    /\ UNCHANGED <<outcome, entityVars, registryVars, queueVars, systemVars, loopVars>>

\* Entity.get_component_by_signature(signature)
get_component_by_signature(e, sig) ==
    /\ UserCode
    /\ args' = [op |-> "get_component_by_signature", entity |-> e, signature |-> sig]
    /\ result' = [done |-> TRUE, value |-> component_by_signature(components[e], sig, 1)]
    /\ UNCHANGED <<outcome, entityVars, registryVars, queueVars, systemVars, loopVars>>

\* ------------------------------------------------ simplesample/entities.py

\* Player.__init__: the components a Player is given, in the order of the
\* add_component calls.
Player == <<Instance(PlayerController, 0), Instance(Position, 0),
            Instance(Health, 0), Instance(Score, 0)>>

\* Trap.__init__: the components a Trap is given; its Position is another
\* instance than the Player's.
Trap == <<Instance(Position, 1), Instance(Damage, 0)>>

\* The class of each entity: Players and Traps alternate.
ClassOf(e) == IF e % 2 = 1 THEN Player ELSE Trap

RECURSIVE get_signature_from_components(_)
\* get_signature_from_components(component_types): the OR of the SIGNATURE
\* bits of a tuple of component classes.
get_signature_from_components(component_types) ==
    IF component_types = <<>> THEN 0
    ELSE BitOr(get_signature_from_components(
                   SubSeq(component_types, 1, Len(component_types) - 1)),
               next_signature(component_types[Len(component_types)]))

\* The signature RenderingSystem.update queries with:
\* filter_by_component_types((PlayerController, Position, Score)).
RenderedSignature == get_signature_from_components(<<PlayerController, Position, Score>>)

\* Signatures the sample's systems make filter queries with:
\* filter_by_component_type(PlayerController) (InputSystem),
\* filter_by_component_type(Position) (PhysicsSystem) and RenderingSystem's
\* compound one.
QuerySignatures ==
    {next_signature(PlayerController), next_signature(Position), RenderedSignature}

\* ---------------------------------------- Collection, CachedCollection

\* An entry of _filter_cache: hit says whether the key is in the dict.
NoEntry == [hit |-> FALSE, list |-> <<>>]

RECURSIVE scan_from(_, _, _)
\* The for loop of Collection.filter_by_signature, from position i on.
scan_from(objs, sig, i) ==
    IF i > Len(objs) THEN <<>>
    ELSE (IF check_signature(signature[objs[i]], sig) THEN <<objs[i]>> ELSE <<>>)
         \o scan_from(objs, sig, i + 1)

\* Collection.filter_by_signature(signature): a scan in dict order.
collection_filter(objs, sig) == scan_from(objs, sig, 1)

\* Collection.add: self.objects[obj.id] = obj. An id already in the dict
\* keeps its place.
collection_add(objs, e) == IF e \in Range(objs) THEN objs ELSE Append(objs, e)

\* Collection.delete: self.objects.pop(obj.id), for an id that is a key.
collection_delete(objs, e) == SelectSeq(objs, LAMBDA x : x # e)

\* CachedCollection.add applied to a registry record [objects, affected].
cached_add(reg, e) ==
    [objects |-> collection_add(reg.objects, e),
     affected |-> BitOr(reg.affected, signature[e]),
     exc |-> ""]

\* cached_delete as it would be without the update of the accumulator.
cached_delete_unmarked(reg, e) ==
    [objects |-> collection_delete(reg.objects, e),
     affected |-> reg.affected,
     exc |-> IF e \in Range(reg.objects) THEN "" ELSE "KeyError"]

\* CachedCollection.delete applied to a registry record: the accumulator is
\* updated first, then dict.pop raises KeyError for an id that is no key.
cached_delete(reg, e) ==
    [objects |-> collection_delete(reg.objects, e),
     affected |-> BitOr(reg.affected, signature[e]),
     exc |-> IF e \in Range(reg.objects) THEN "" ELSE "KeyError"]

\* cleared as it would be if clear_cache emptied the whole cache.
cleared_all(cache, acc) ==
    [s \in DOMAIN cache |-> NoEntry]

\* CachedCollection.clear_cache applied to a cache and an accumulator: the
\* entries whose key is an atomic signature of the accumulator are deleted.
cleared(cache, acc) ==
    [s \in DOMAIN cache |->
        IF s \in Range(get_atomic_signatures(acc)) THEN NoEntry ELSE cache[s]]

\* What filter_by_signature(sig) returns in the current state.
filter_result(sig) ==
    IF filter_cache[sig].hit THEN filter_cache[sig].list
    ELSE collection_filter(objects, sig)

\* EntityCollection.add(obj), called on scene.entities directly.
registry_add(e) ==
    LET r == cached_add([objects |-> objects, affected |-> affected], e)
    IN  /\ UserCode
        /\ objects' = r.objects
        /\ affected' = r.affected
        /\ outcome' = "ok"
        /\ UNCHANGED <<filter_cache, entityVars, queueVars, systemVars, loopVars>>

\* EntityCollection.delete(obj), called on scene.entities directly.
registry_delete(e) ==
    LET r == cached_delete([objects |-> objects, affected |-> affected], e)
    IN  /\ UserCode
        /\ objects' = r.objects
        /\ affected' = r.affected
        /\ outcome' = IF r.exc = "" THEN "ok" ELSE r.exc
        /\ IF r.exc = "" THEN Returns ELSE Raises
        /\ UNCHANGED <<filter_cache, entityVars, queueVars, systemVars>>

\* CachedCollection.filter_by_signature(signature); EntityCollection's
\* filter_by_component_type(s) resolve to it.
filter_by_signature(sig) ==
    /\ UserCode
    /\ filter_cache' = [filter_cache EXCEPT ![sig] =
                           [hit |-> TRUE, list |-> filter_result(sig)]]
    /\ outcome' = "ok"
    /\ UNCHANGED <<objects, affected, entityVars, queueVars, systemVars, loopVars>>

\* CachedCollection.clear_cache()
clear_cache ==
    /\ UserCode
    /\ filter_cache' = cleared(filter_cache, affected)
    /\ affected' = 0
    /\ outcome' = "ok"
    /\ UNCHANGED <<objects, entityVars, queueVars, systemVars, loopVars>>

\* CachedCollection.__init__
InitRegistry ==
    /\ objects = <<>>
    /\ filter_cache = [s \in QuerySignatures |-> NoEntry]
    /\ affected = 0

\* ---------------------------------------------------------------- System

\* System.PRIORITY of each instance's class; two of the classes share one.
PRIORITY(s) == s \div 2

\* ----------------------------------------------------------------- Scene

RECURSIVE insert_sorted(_, _)
\* One step of a stable sort by PRIORITY: s goes after the last element
\* whose priority is not greater.
insert_sorted(list, s) ==
    IF list = <<>> THEN <<s>>
    ELSE IF PRIORITY(list[Len(list)]) <= PRIORITY(s) THEN Append(list, s)
    ELSE Append(insert_sorted(SubSeq(list, 1, Len(list) - 1), s), list[Len(list)])

RECURSIVE sort_by_priority(_)
\* list.sort(key=lambda s: s.PRIORITY): Python's sort is stable.
sort_by_priority(list) ==
    IF list = <<>> THEN <<>>
    ELSE insert_sorted(sort_by_priority(SubSeq(list, 1, Len(list) - 1)),
                       list[Len(list)])

\* The lists add_systems is called with: one or two systems that are not in
\* the scene's list, each once.
ListsOf(S) == {<<s>> : s \in S} \cup {<<s, t>> : s, t \in S}
NewSystemLists == {l \in ListsOf(Systems \ Range(systems)) :
                      Len(l) = Cardinality(Range(l))}

\* add_systems as it would be without the sort.
add_systems_no_sort(list) ==
    /\ UserCode
    /\ systems' = systems \o list
    /\ added' = added \o list
    /\ outcome' = "ok"
    /\ Returns
    /\ UNCHANGED <<enabled, inboxVars, entityVars, registryVars, queueVars>>

\* Scene.add_systems(systems)
add_systems(list) ==
    /\ UserCode
    /\ systems' = sort_by_priority(systems \o list)
    /\ added' = added \o list
    /\ outcome' = "ok"
    /\ Returns
    /\ UNCHANGED <<enabled, inboxVars, entityVars, registryVars, queueVars>>

RECURSIVE remove_systems(_, _)
\* The for loop of delete_systems: each list.remove in turn (System defines
\* no __eq__, so list.remove finds the instance itself), stopping at the
\* first that raises ValueError.
remove_systems(list, to_remove) ==
    IF to_remove = <<>> THEN [list |-> list, exc |-> ""]
    ELSE IF Head(to_remove) \in Range(list)
    THEN LET i == CHOOSE j \in 1..Len(list) :
                      /\ list[j] = Head(to_remove)
                      /\ \A k \in 1..(j - 1) : list[k] # Head(to_remove)
         IN  remove_systems(RemoveAt(list, i), Tail(to_remove))
    ELSE [list |-> list, exc |-> "ValueError"]

\* Scene.delete_systems(systems)
delete_systems(list) ==
    LET r == remove_systems(systems, list)
    IN  /\ UserCode
        /\ systems' = IF r.exc = "" THEN sort_by_priority(r.list) ELSE r.list
        /\ added' = SelectSeq(added, LAMBDA s : s \in Range(r.list))
        /\ outcome' = IF r.exc = "" THEN "ok" ELSE r.exc
        /\ IF r.exc = "" THEN Returns ELSE Raises
        /\ UNCHANGED <<enabled, inboxVars, entityVars, registryVars, queueVars>>

\* add_entity as it would be if it wrote to the registry at the time of the
\* call instead of queueing.
add_entity_at_once(e) ==
    /\ UserCode
    /\ e \notin Range(entities_to_add)
    /\ objects' = collection_add(objects, e)
    /\ affected' = BitOr(affected, signature[e])
    /\ outcome' = "ok"
    /\ Returns
    /\ UNCHANGED <<filter_cache, queueVars, entityVars, systemVars>>

\* Scene.add_entity(entity), for an entity that is not waiting in the
\* pending-add queue already.
add_entity(e) ==
    /\ UserCode
    /\ e \notin Range(entities_to_add)
    /\ entities_to_add' = Append(entities_to_add, e)
    /\ outcome' = "ok"
    /\ Returns
    /\ UNCHANGED <<entities_to_delete, entityVars, registryVars, systemVars>>

\* delete_entity's body as it would be without the test of entity.removed.
delete_entity_body_unchecked(e) ==
    /\ entities_to_delete' = Append(entities_to_delete, e)
    /\ removed' = [removed EXCEPT ![e] = TRUE]

\* The body of Scene.delete_entity(entity).
delete_entity_body(e) ==
    IF removed[e]
    THEN UNCHANGED <<entities_to_delete, removed>>
    ELSE /\ entities_to_delete' = Append(entities_to_delete, e)
         /\ removed' = [removed EXCEPT ![e] = TRUE]

\* Scene.delete_entity(entity)
delete_entity(e) ==
    /\ UserCode
    /\ delete_entity_body(e)
    /\ outcome' = "ok"
    /\ Returns
    /\ UNCHANGED <<entities_to_add, signature, components, componentVars,
                   registryVars, systemVars>>

RECURSIVE del_entities(_, _)
\* Scene._del_entities: the queue is drained into the registry record until
\* it is empty or a delete raises; queue is what is left in the queue.
del_entities(reg, queue) ==
    IF queue = <<>> THEN [objects |-> reg.objects, affected |-> reg.affected,
                          exc |-> "", queue |-> <<>>]
    ELSE LET r == cached_delete(reg, Head(queue))
         IN  IF r.exc # ""
             THEN [objects |-> reg.objects, affected |-> r.affected,
                   exc |-> r.exc, queue |-> Tail(queue)]
             ELSE del_entities(r, Tail(queue))

RECURSIVE add_entities(_, _)
\* Scene._add_entities: the queue is drained into the registry record.
add_entities(reg, queue) ==
    IF queue = <<>> THEN reg
    ELSE add_entities(cached_add(reg, Head(queue)), Tail(queue))

\* Scene.update, entered: the for loop gets its iterator.
update_begin ==
    /\ pc = "idle"
    /\ pc' = "loop"
    /\ idx' = 0
    /\ cur' = 0
    /\ updated' = <<>>
    /\ UNCHANGED <<outcome, entityVars, registryVars, queueVars, systemVars>>

\* update_next as it would be without the test of system.enabled.
update_next_whatever_enabled ==
    /\ pc = "loop"
    /\ idx < Len(systems)
    /\ idx' = idx + 1
    /\ pc' = "system"
    /\ cur' = systems[idx + 1]
    /\ updated' = Append(updated, systems[idx + 1])
    /\ UNCHANGED <<outcome, entityVars, registryVars, queueVars, systemVars>>

\* Scene.update, the for loop takes the next system of the list: the list
\* iterator yields the element at its index, whatever the list is by now.
update_next ==
    /\ pc = "loop"
    /\ idx < Len(systems)
    /\ idx' = idx + 1
    /\ IF enabled[systems[idx + 1]]
       THEN /\ pc' = "system"
            /\ cur' = systems[idx + 1]
            /\ updated' = Append(updated, systems[idx + 1])
       ELSE UNCHANGED <<pc, cur, updated>>
    /\ UNCHANGED <<outcome, entityVars, registryVars, queueVars, systemVars>>

\* system_returns as it would be if the termination sentinel were only
\* noted and the pending changes applied before Scene.update returns 1.
system_returns_after_apply(r) ==
    LET d == del_entities([objects |-> objects, affected |-> affected],
                          entities_to_delete)
        a == add_entities(d, entities_to_add)
    IN  /\ pc = "system"
        /\ cur' = 0
        /\ IF r = 1
           THEN /\ pc' = "idle" /\ idx' = 0 /\ outcome' = "1"
                /\ objects' = a.objects
                /\ affected' = 0
                /\ filter_cache' = cleared(filter_cache, a.affected)
                /\ entities_to_add' = <<>>
                /\ entities_to_delete' = <<>>
           ELSE /\ pc' = "loop"
                /\ UNCHANGED <<idx, outcome, registryVars, queueVars>>
        /\ UNCHANGED <<updated, entityVars, systemVars>>

\* system.update() returns r to Scene.update: 1 ends the call at once.
system_returns(r) ==
    /\ pc = "system"
    /\ handling = 0
    /\ IF r = 1
       THEN pc' = "idle" /\ idx' = 0 /\ outcome' = "1"
       ELSE pc' = "loop" /\ UNCHANGED <<idx, outcome>>
    /\ cur' = 0
    /\ UNCHANGED <<updated, entityVars, registryVars, queueVars, systemVars>>

\* update_apply as it would be with _add_entities called before
\* _del_entities.
update_apply_adds_first ==
    LET clear == ~(entities_to_delete = <<>> /\ entities_to_add = <<>>)
        a == add_entities([objects |-> objects, affected |-> affected],
                          entities_to_add)
        d == del_entities(a, entities_to_delete)
    IN  /\ pc = "loop"
        /\ idx >= Len(systems)
        /\ pc' = "idle" /\ idx' = 0 /\ cur' = 0
        /\ objects' = d.objects
        /\ entities_to_add' = <<>>
        /\ entities_to_delete' = d.queue
        /\ IF d.exc # ""
           THEN /\ affected' = d.affected
                /\ outcome' = d.exc
                /\ UNCHANGED filter_cache
           ELSE /\ filter_cache' = IF clear THEN cleared(filter_cache, d.affected)
                                   ELSE filter_cache
                /\ affected' = IF clear THEN 0 ELSE d.affected
                /\ outcome' = "0"
        /\ UNCHANGED <<updated, entityVars, systemVars>>

\* Scene.update, after the loop: the pending deletes and adds are applied
\* and the cache is cleared if there were any.
update_apply ==
    LET clear == ~(entities_to_delete = <<>> /\ entities_to_add = <<>>)
        d == del_entities([objects |-> objects, affected |-> affected],
                          entities_to_delete)
        a == add_entities(d, entities_to_add)
    IN  /\ pc = "loop"
        /\ idx >= Len(systems)
        /\ pc' = "idle" /\ idx' = 0 /\ cur' = 0
        /\ IF d.exc # ""
           THEN /\ objects' = d.objects
                /\ affected' = d.affected
                /\ entities_to_delete' = d.queue
                /\ outcome' = d.exc
                /\ UNCHANGED <<entities_to_add, filter_cache>>
           ELSE /\ objects' = a.objects
                /\ entities_to_delete' = <<>>
                /\ entities_to_add' = <<>>
                /\ filter_cache' = IF clear THEN cleared(filter_cache, a.affected)
                                   ELSE filter_cache
                /\ affected' = IF clear THEN 0 ELSE a.affected
                /\ outcome' = "0"
        /\ UNCHANGED <<updated, entityVars, systemVars>>

\* ------------------------------------------------- Signal and signalling

\* Signal.TYPE_ID of the sample's signal classes, as
\* SIGNAL_TYPE_ID_MANAGER.next_id() numbered them.
CollisionEvent == 0
MoveEvent == 1
SignalTypes == {CollisionEvent, MoveEvent}

\* systems.py: the values of the DIRECTIONS dict ("u", "d", "l", "r", "e").
DIRECTIONS == {<<0, -1>>, <<0, 1>>, <<-1, 0>>, <<1, 0>>, <<0, 0>>}

\* systems.py: MAP_SIZE, and the bound handle_move_signal tests against.
MAP_SIZE == 20

\* The lists of involved entities a signal is constructed with: one entity
\* (MoveEvent([target], direction)), the first Player or the first Trap, or
\* the two (CollisionEvent([entity, collider])).
InvolvedLists == {<<1>>, <<2>>, <<2, 1>>}

\* The directions MoveEvents are constructed with: "r", which moves an entity
\* that stands at x = 0, and "u", which leads off the map from y = 0.
MoveDirections == {d \in DIRECTIONS : d = <<1, 0>> \/ d = <<0, -1>>}

\* The signals user code constructs: a kind, the involved entities and, for a
\* MoveEvent, a direction (a CollisionEvent has none).
SignalsSent ==
    {[type |-> MoveEvent, involved |-> l, direction |-> d] :
        l \in InvolvedLists, d \in MoveDirections}
    \cup {[type |-> CollisionEvent, involved |-> l, direction |-> <<>>] :
             l \in InvolvedLists}

RECURSIVE combine_signatures(_)
\* The loop of Signal.__init__ (and combine_signatures): the OR of the
\* signatures of a list of entities.
combine_signatures(list) ==
    IF list = <<>> THEN 0
    ELSE BitOr(combine_signatures(SubSeq(list, 1, Len(list) - 1)),
               signature[list[Len(list)]])

\* Signal.__init__(involved_entities) and MoveEvent.__init__(involved_entities,
\* direction); id tells the objects apart.
new_signal(id, type, involved, direction) ==
    [id |-> id, type |-> type, involved |-> involved,
     signature |-> combine_signatures(involved), direction |-> direction]

\* The class of a system instance: 1 InputSystem, 2 PhysicsSystem,
\* 0 DamageSystem.
ClassOfSystem(s) == s % 3

\* System.SIGNAL_HANDLERS of each class, a dict from signal TYPE_ID to a dict
\* (here a list, in insertion order) from signature to handler: the base
\* class's empty table (InputSystem), PhysicsSystem's table with its MoveEvent
\* entry, and DamageSystem's table with its CollisionEvent entry.
SIGNAL_HANDLERS(s) ==
    IF ClassOfSystem(s) = 1 THEN <<>>
    ELSE IF ClassOfSystem(s) = 2
    THEN [t \in {MoveEvent} |-> <<[signature |-> 0, handler |-> "handle_move_signal"]>>]
    ELSE [t \in {CollisionEvent} |->
            <<[signature |-> BitOr(next_signature(Damage), next_signature(Health)),
               handler |-> "handle_damage_signal"]>>]

\* receives as it would be without the test that keeps the sender out.
receives_sender_too(system, current_system, signal) ==
    signal.type \in DOMAIN SIGNAL_HANDLERS(system)

\* Whether propagate_signal(current_system, signal) puts the signal on
\* system's inbox.
receives(system, current_system, signal) ==
    /\ system # current_system
    /\ signal.type \in DOMAIN SIGNAL_HANDLERS(system)

RECURSIVE propagate_from(_, _, _, _)
\* The for loop of propagate_signal from position i of the list: the
\* inboxes afterwards.
propagate_from(inboxes, current_system, signal, i) ==
    IF i > Len(systems) THEN inboxes
    ELSE propagate_from(
            IF receives(systems[i], current_system, signal)
            THEN [inboxes EXCEPT ![systems[i]] = Append(@, signal)]
            ELSE inboxes,
            current_system, signal, i + 1)

\* propagate_signal as it would be if it called the receivers' handlers
\* itself instead of leaving the signal on their inboxes.
propagate_signal_dispatching(current_system, type, involved, direction) ==
    LET signal == new_signal(created + 1, type, involved, direction)
        to == SelectSeq(systems, LAMBDA s : receives(s, current_system, signal))
    IN  /\ UserCode
        /\ created < MaxSignals
        /\ created' = created + 1
        /\ handled' = handled \o
              [i \in 1..Len(to) |-> [system |-> to[i], signal |-> signal.id,
                                     handler |-> "handle_move_signal"]]
        /\ propagated' = [sender |-> current_system, signal |-> signal,
                         during |-> 0]
        /\ outcome' = "ok"
        /\ Returns
        /\ UNCHANGED <<systems, enabled, added, handling, signals,
                       entityVars, registryVars, queueVars>>

\* Scene.propagate_signal(current_system, signal) with a signal constructed
\* for the call.
propagate_signal(current_system, type, involved, direction) ==
    LET signal == new_signal(created + 1, type, involved, direction)
    IN  /\ UserCode
        /\ created < MaxSignals
        /\ created' = created + 1
        /\ signals' = propagate_from(signals, current_system, signal, 1)
        /\ propagated' = [sender |-> current_system, signal |-> signal,
                         during |-> 0]
        /\ outcome' = "ok"
        /\ Returns
        /\ UNCHANGED <<systems, enabled, added, handling, handled,
                       entityVars, registryVars, queueVars>>

\* first_match as it would be if a handler fired only for a signal whose
\* signature equals the one it is registered under.
first_match_exact(category, signal_signature, i) ==
    IF \E j \in i..Len(category) : category[j].signature = signal_signature
    THEN category[CHOOSE j \in i..Len(category) :
                     category[j].signature = signal_signature].handler
    ELSE "default_handler"

RECURSIVE first_match(_, _, _)
\* The for loop of _retrieve_handler over a handler category, from entry i.
first_match(category, signal_signature, i) ==
    IF i > Len(category) THEN "default_handler"
    ELSE IF check_signature(signal_signature, category[i].signature)
    THEN category[i].handler
    ELSE first_match(category, signal_signature, i + 1)

\* System._retrieve_handler(signal_id, signal_signature): the handler's name,
\* or "KeyError" when SIGNAL_HANDLERS has no entry for signal_id.
retrieve_handler(s, signal_id, signal_signature) ==
    IF signal_id \in DOMAIN SIGNAL_HANDLERS(s)
    THEN first_match(SIGNAL_HANDLERS(s)[signal_id], signal_signature, 1)
    ELSE "KeyError"

\* get_first_signature_match on a signal's involved entities: the first, in
\* the order they were given, whose signature contains sig (0: None).
first_signature_match(involved, sig) ==
    IF \E i \in 1..Len(involved) : check_signature(signature[involved[i]], sig)
    THEN involved[CHOOSE i \in 1..Len(involved) :
                     /\ check_signature(signature[involved[i]], sig)
                     /\ \A j \in 1..(i - 1) :
                           ~check_signature(signature[involved[j]], sig)]
    ELSE 0

\* Collection.get_last on a signal's involved entities: the one added last
\* (0: None, for a signal that involves no entity).
get_last(involved) ==
    IF involved = <<>> THEN 0 ELSE involved[Len(involved)]

\* Entity.get_component_by_type(component_type): the entity's first
\* component of the kind (0: None).
get_component_by_type(entity, kind) ==
    component_by_signature(components[entity], next_signature(kind), 1)

\* A handler returns to handle_signals, which goes on with the inbox.
handler_returns ==
    /\ UNCHANGED <<handling, outcome>>
    /\ Returns

\* A handler raises AttributeError (it reads an attribute of None): the
\* exception leaves handle_signals and every call around it.
handler_raises ==
    /\ handling' = 0
    /\ outcome' = "AttributeError"
    /\ Raises

\* systems.py: handle_damage_signal(system, scene, event).  The lookups come
\* first; a lookup that returned None makes the next attribute access raise,
\* before anything is written.  Then the target's health is reduced and the
\* perpetrator is deleted from the scene.
handle_damage_signal(event) ==
    LET perpetrator == first_signature_match(event.involved, next_signature(Damage))
        target == first_signature_match(event.involved, next_signature(Health))
        damage_component == get_component_by_type(perpetrator, Damage)
        health_component == get_component_by_type(target, Health)
    IN  IF \/ perpetrator = 0
           \/ target = 0
           \/ health_component = 0
           \/ damage_component = 0
        THEN /\ UNCHANGED <<health, removed, entities_to_delete>>
             /\ handler_raises
        ELSE /\ health' = [health EXCEPT ![health_component] =
                              @ - DamageOf(damage_component)]
             /\ delete_entity_body(perpetrator)
             /\ handler_returns

\* systems.py: handle_move_signal(system, scene, event).  The Position of the
\* entity added last moves by event.direction if that keeps it on the map;
\* no such entity, no Position or no direction makes an attribute access
\* raise.
handle_move_signal(event) ==
    LET target == get_last(event.involved)
        p == get_component_by_type(target, Position)
    IN  IF target = 0 \/ p = 0 \/ event.direction = <<>>
        THEN /\ UNCHANGED position
             /\ handler_raises
        ELSE LET next_x == position[p][1] + event.direction[1]
                 next_y == position[p][2] + event.direction[2]
             IN  /\ position' =
                       IF /\ -1 < next_x /\ next_x < MAP_SIZE
                          /\ -1 < next_y /\ next_y < MAP_SIZE
                       THEN [position EXCEPT ![p] = <<next_x, next_y>>]
                       ELSE position
                 /\ handler_returns

\* handler(self, self.scene, signal) in handle_signals, for the handler
\* _retrieve_handler returned; default_handler does nothing.
call_handler(handler, signal) ==
    IF handler = "handle_damage_signal"
    THEN handle_damage_signal(signal) /\ UNCHANGED position
    ELSE IF handler = "handle_move_signal"
    THEN handle_move_signal(signal) /\ UNCHANGED <<health, removed, entities_to_delete>>
    ELSE /\ UNCHANGED <<position, health, removed, entities_to_delete>>
         /\ handler_returns

\* System.handle_signals(), entered by system s.
handle_signals_begin(s) ==
    /\ UserCode
    /\ handling' = s
    /\ UNCHANGED <<signals, handled, created, propagated, systems, enabled, added,
                   outcome, entityVars, registryVars, queueVars, loopVars>>

\* handle_signals as it would be if it took the newest signal of the inbox
\* instead of the oldest.
handle_signals_step_newest_first ==
    /\ handling # 0
    /\ IF signals[handling] = <<>>
       THEN /\ handling' = 0
            /\ outcome' = "ok"
            /\ Returns
            /\ UNCHANGED <<signals, handled, position, health, removed,
                           entities_to_delete>>
       ELSE LET inbox == signals[handling]
                signal == inbox[Len(inbox)]
                handler == retrieve_handler(handling, signal.type, signal.signature)
            IN  /\ signals' = [signals EXCEPT ![handling] = SubSeq(inbox, 1, Len(inbox) - 1)]
                /\ IF handler = "KeyError"
                   THEN /\ handling' = 0
                        /\ outcome' = "KeyError"
                        /\ Raises
                        /\ UNCHANGED <<handled, position, health, removed,
                                       entities_to_delete>>
                   ELSE /\ handled' = Append(handled,
                                         [system |-> handling, signal |-> signal.id,
                                          handler |-> handler])
                        /\ call_handler(handler, signal)
    /\ UNCHANGED <<created, propagated, systems, enabled, added, signature, components,
                   entities_to_add, registryVars>>

\* System.handle_signals(), one turn of its while loop: it returns when the
\* inbox is empty, else it takes the oldest signal, looks up its handler
\* (KeyError when the table has no entry for the signal's kind) and calls it.
handle_signals_step ==
    /\ handling # 0
    /\ IF signals[handling] = <<>>
       THEN /\ handling' = 0
            /\ outcome' = "ok"
            /\ Returns
            /\ UNCHANGED <<signals, handled, position, health, removed,
                           entities_to_delete>>
       ELSE LET signal == Head(signals[handling])
                handler == retrieve_handler(handling, signal.type, signal.signature)
            IN  /\ signals' = [signals EXCEPT ![handling] = Tail(@)]
                /\ IF handler = "KeyError"
                   THEN /\ handling' = 0
                        /\ outcome' = "KeyError"
                        /\ Raises
                        /\ UNCHANGED <<handled, position, health, removed,
                                       entities_to_delete>>
                   ELSE /\ handled' = Append(handled,
                                         [system |-> handling, signal |-> signal.id,
                                          handler |-> handler])
                        /\ call_handler(handler, signal)
    /\ UNCHANGED <<created, propagated, systems, enabled, added, signature, components,
                   entities_to_add, registryVars>>

\* handler_propagates as it would be if the handler gave another object than
\* its own system as the sender.
handler_propagates_as_nobody(type, involved, direction) ==
    LET signal == new_signal(created + 1, type, involved, direction)
    IN  /\ handling # 0
        /\ created < MaxSignals
        /\ created' = created + 1
        /\ signals' = propagate_from(signals, 0, signal, 1)
        /\ propagated' = [sender |-> handling, signal |-> signal,
                          during |-> handling]
        /\ UNCHANGED <<systems, enabled, added, handling, handled, outcome,
                       entityVars, registryVars, queueVars, loopVars>>

\* A handler that handle_signals is running calls
\* scene.propagate_signal(system, signal) with the system it was given, the
\* one that is handling, as the sender.
handler_propagates(type, involved, direction) ==
    LET signal == new_signal(created + 1, type, involved, direction)
    IN  /\ handling # 0
        /\ created < MaxSignals
        /\ created' = created + 1
        /\ signals' = propagate_from(signals, handling, signal, 1)
        /\ propagated' = [sender |-> handling, signal |-> signal,
                          during |-> handling]
        /\ UNCHANGED <<systems, enabled, added, handling, handled, outcome,
                       entityVars, registryVars, queueVars, loopVars>>

\* User code puts a signal it constructed on a system's inbox itself:
\* system.signals.put(signal); the inbox is a public field of the system.
signals_put(s, type, involved, direction) ==
    LET signal == new_signal(created + 1, type, involved, direction)
    IN  /\ UserCode
        /\ created < MaxSignals
        /\ created' = created + 1
        /\ signals' = [signals EXCEPT ![s] = Append(@, signal)]
        /\ outcome' = "ok"
        /\ Returns
        /\ UNCHANGED <<systems, enabled, added, handling, handled, propagated,
                       entityVars, registryVars, queueVars>>

\* User code sets a system's enabled flag: system.enabled = b.
set_enabled(s, b) ==
    /\ UserCode
    /\ enabled[s] # b
    /\ enabled' = [enabled EXCEPT ![s] = b]
    /\ UNCHANGED <<systems, added, inboxVars, outcome, entityVars, registryVars,
                   queueVars, loopVars>>

\* System.__init__, for every system: an empty inbox; no signal exists yet.
InitInboxes ==
    /\ signals = [s \in Systems |-> <<>>]
    /\ handling = 0
    /\ handled = <<>>
    /\ created = 0
    /\ propagated = [sender |-> 0, signal |-> new_signal(0, 0, <<>>, <<>>), during |-> 0]

\* Scene.__init__
InitScene ==
    /\ InitRegistry
    /\ systems = <<>>
    /\ added = <<>>
    /\ entities_to_add = <<>>
    /\ entities_to_delete = <<>>
    /\ pc = "idle" /\ idx = 0 /\ cur = 0 /\ updated = <<>>
    /\ InitInboxes

\* ------------------------------------------- specification: one entity

\* The lists remove_components is called with: one or two distinct instances
\* among those the entity owns.
OwnedLists(e) ==
    {<<c>> : c \in Range(components[e])}
    \cup {l \in {<<c, d>> : c, d \in Range(components[e])} : l[1] # l[2]}

\* An entity is constructed, then given and stripped of components.
InitEntity ==
    /\ InitEntities
    /\ InitScene
    /\ enabled = [s \in Systems |-> TRUE]
    /\ outcome = "ok"
    /\ NoCall

NextEntity ==
    \/ \E c \in Components : add_component(1, c) /\ UNCHANGED callVars
    \/ \E c \in Range(components[1]) : remove_component(1, c) /\ UNCHANGED callVars
    \/ \E cs \in OwnedLists(1) : remove_components(1, cs) /\ UNCHANGED callVars

SpecEntity == InitEntity /\ [][NextEntity]_vars

\* -------------------------------- specification: an entity that is queried

\* The signatures an entity is queried with: any combination of kinds.
Signatures == 0..(2 ^ NumKinds - 1)

\* An entity is given and stripped of components as in SpecEntity, then
\* asked once for its components by signature (the queries change nothing).
NextQuery ==
    \/ ~result.done /\ \E c \in Components : add_component(1, c) /\ UNCHANGED callVars
    \/ ~result.done /\ \E c \in Range(components[1]) : remove_component(1, c) /\ UNCHANGED callVars
    \/ ~result.done /\ \E sig \in Signatures : get_components_by_signature(1, sig)
    \/ ~result.done /\ \E sig \in Signatures : get_component_by_signature(1, sig)

SpecQuery == InitEntity /\ [][NextQuery]_vars

\* ---------------------------------------- specification: a scene's frames

\* main(): a scene with two systems added; Players and Traps exist, none of
\* them in the scene yet.  The scene is updated again and again; the systems,
\* while they are updated, add entities (none that was asked to be deleted),
\* delete entities and query the registry.
Init ==
    /\ components = [e \in Entities |-> ClassOf(e)]
    /\ signature = [e \in Entities |-> calculate_signature(ClassOf(e))]
    /\ removed = [e \in Entities |-> FALSE]
    /\ InitComponents
    /\ InitRegistry
    /\ systems = sort_by_priority(<<2, 1>>)
    /\ added = <<2, 1>>
    /\ enabled = [s \in Systems |-> TRUE]
    /\ entities_to_add = <<>>
    /\ entities_to_delete = <<>>
    /\ pc = "idle" /\ idx = 0 /\ cur = 0 /\ updated = <<>>
    /\ InitInboxes
    /\ outcome = "ok"
    /\ NoCall

Next ==
    \/ update_begin /\ UNCHANGED callVars
    \/ update_next /\ UNCHANGED callVars
    \/ \E r \in {0, 1} : system_returns(r) /\ UNCHANGED callVars
    \/ update_apply /\ UNCHANGED callVars
    \/ pc = "system" /\ \E e \in {x \in Entities : ~removed[x]} : add_entity(e) /\ UNCHANGED callVars
    \/ pc = "system" /\ \E e \in Entities : delete_entity(e) /\ UNCHANGED callVars
    \/ pc = "system" /\ \E sig \in QuerySignatures : filter_by_signature(sig) /\ UNCHANGED callVars

Spec == Init /\ [][Next]_vars

\* ------------------------------- specification: a scene's list of systems

\* A scene is constructed; systems are constructed enabled or not, added to
\* the scene and deleted from it, between Scene.update calls and by the
\* system that is being updated; no entity is ever added.
InitSystems ==
    /\ InitEntities
    /\ InitScene
    /\ enabled \in [Systems -> BOOLEAN]
    /\ outcome = "ok"
    /\ NoCall

NextSystems ==
    \/ \E list \in NewSystemLists : add_systems(list) /\ UNCHANGED callVars
    \/ \E list \in ListsOf(Systems) : delete_systems(list) /\ UNCHANGED callVars
    \/ update_begin /\ UNCHANGED callVars
    \/ update_next /\ UNCHANGED callVars
    \/ \E r \in {0, 1} : system_returns(r) /\ UNCHANGED callVars
    \/ update_apply /\ UNCHANGED callVars

SpecSystems == InitSystems /\ [][NextSystems]_vars

\* ------------------------------------ specification: signals between systems

\* The lists of systems a scene starts with: all the systems, or all but
\* one, added in the order of their numbers.
StartLists == {SelectSeq([i \in 1..NumSystems |-> i], LAMBDA s : s # out) :
                  out \in 0..NumSystems}

\* A scene with some systems added and Players and Traps constructed; user
\* code propagates signals in the name of any system and has any system
\* handle its signals.
InitSignals ==
    /\ components = [e \in Entities |-> ClassOf(e)]
    /\ signature = [e \in Entities |-> calculate_signature(ClassOf(e))]
    /\ removed = [e \in Entities |-> FALSE]
    /\ InitComponents
    /\ InitRegistry
    /\ \E list \in StartLists :
          /\ systems = sort_by_priority(list)
          /\ added = list
    /\ enabled = [s \in Systems |-> TRUE]
    /\ entities_to_add = <<>>
    /\ entities_to_delete = <<>>
    /\ pc = "idle" /\ idx = 0 /\ cur = 0 /\ updated = <<>>
    /\ InitInboxes
    /\ outcome = "ok"
    /\ NoCall

NextSignals ==
    \/ \E s \in Systems, sg \in SignalsSent : propagate_signal(s, sg.type, sg.involved, sg.direction) /\ UNCHANGED callVars
    \/ \E s \in Systems : handle_signals_begin(s) /\ UNCHANGED callVars
    \/ handle_signals_step /\ UNCHANGED callVars

SpecSignals == InitSignals /\ [][NextSignals]_vars

\* ------------------------------- specification: handlers that send signals

\* As above, and the handlers that handle_signals calls propagate signals of
\* their own, in the name of the system that is handling.
NextHandlers ==
    \/ \E s \in Systems, sg \in SignalsSent : propagate_signal(s, sg.type, sg.involved, sg.direction) /\ UNCHANGED callVars
    \/ \E s \in Systems : handle_signals_begin(s) /\ UNCHANGED callVars
    \/ handle_signals_step /\ UNCHANGED callVars
    \/ \E sg \in SignalsSent : handler_propagates(sg.type, sg.involved, sg.direction) /\ UNCHANGED callVars

SpecHandlers == InitSignals /\ [][NextHandlers]_vars

\* ------------------- specification: the registry and entities that change

\* As SpecCache, and entities, in the registry or not, have components they
\* own removed.
NextCacheEntity ==
    \/ \E e \in Entities : registry_add(e) /\ UNCHANGED callVars
    \/ \E e \in Entities : registry_delete(e) /\ UNCHANGED callVars
    \/ \E sig \in QuerySignatures : filter_by_signature(sig) /\ UNCHANGED callVars
    \/ clear_cache /\ UNCHANGED callVars
    \/ \E e \in Entities : \E c \in Range(components[e]) : remove_component(e, c) /\ UNCHANGED callVars

SpecCacheEntity == Init /\ [][NextCacheEntity]_vars

\* ------------------------- specification: frames of systems that signal

\* The sample's game loop: the scene holds the Players and Traps (added in an
\* earlier frame) and some systems, enabled or not.  The scene is updated
\* again and again; the system being updated propagates signals in its own
\* name and handles its signals, as PhysicsSystem.update and
\* DamageSystem.update do, turns other systems off, and returns 0.
\* The signals the sample's systems construct: MoveEvent([target], "r") for
\* a Player and CollisionEvent([entity, collider]) for a Trap and a Player.
SampleSignals == {[type |-> MoveEvent, involved |-> <<1>>, direction |-> <<1, 0>>],
                  [type |-> CollisionEvent, involved |-> <<2, 1>>, direction |-> <<>>]}

InitFrames ==
    /\ components = [e \in Entities |-> ClassOf(e)]
    /\ signature = [e \in Entities |-> calculate_signature(ClassOf(e))]
    /\ removed = [e \in Entities |-> FALSE]
    /\ InitComponents
    /\ objects = [i \in 1..NumEntities |-> i]
    /\ filter_cache = [s \in QuerySignatures |-> NoEntry]
    /\ affected = 0
    /\ systems = sort_by_priority([i \in 1..NumSystems |-> i])
    /\ added = [i \in 1..NumSystems |-> i]
    /\ enabled \in [Systems -> BOOLEAN]
    /\ entities_to_add = <<>>
    /\ entities_to_delete = <<>>
    /\ pc = "idle" /\ idx = 0 /\ cur = 0 /\ updated = <<>>
    /\ InitInboxes
    /\ outcome = "ok"
    /\ NoCall

NextFrames ==
    \/ update_begin /\ UNCHANGED callVars
    \/ update_next /\ UNCHANGED callVars
    \/ system_returns(0) /\ UNCHANGED callVars
    \/ update_apply /\ UNCHANGED callVars
    \/ pc = "system" /\ \E sg \in SampleSignals : propagate_signal(cur, sg.type, sg.involved, sg.direction) /\ UNCHANGED callVars
    \/ pc = "system" /\ handle_signals_begin(cur) /\ UNCHANGED callVars
    \/ handle_signals_step /\ UNCHANGED callVars
    \/ pc = "system" /\ \E s \in Systems \ {cur} : set_enabled(s, FALSE) /\ UNCHANGED callVars

SpecFrames == InitFrames /\ [][NextFrames]_vars

\* ------------------------------- specification: inboxes written directly

\* As SpecSignals, and user code also puts signals on inboxes itself.
NextInbox ==
    \/ \E s \in Systems, sg \in SignalsSent : propagate_signal(s, sg.type, sg.involved, sg.direction) /\ UNCHANGED callVars
    \/ \E s \in Systems, sg \in SignalsSent : signals_put(s, sg.type, sg.involved, sg.direction) /\ UNCHANGED callVars
    \/ \E s \in Systems : handle_signals_begin(s) /\ UNCHANGED callVars
    \/ handle_signals_step /\ UNCHANGED callVars

SpecInbox == InitSignals /\ [][NextInbox]_vars

\* ------------------------- specification: the handler for a signal

\* The handlers a table's entries name, by the entry's place in the category.
HandlerNames == <<"handle_damage_signal", "handle_move_signal",
                  "handle_score_signal", "handle_heal_signal">>

\* The signatures handlers are registered under: 0 (every signal), one
\* component kind, or two kinds (as DamageSystem's Damage | Health).
SubSignatures ==
    {sub \in 0..(2^SignatureBits - 1) : Len(get_atomic_signatures(sub)) <= 2}

\* The handler categories, dicts from signature to handler in declaration
\* order: up to MaxHandlers entries with distinct signatures.
Categories ==
    UNION {{[i \in 1..n |-> [signature |-> keys[i], handler |-> HandlerNames[i]]] :
               keys \in {k \in [1..n -> SubSignatures] :
                            \A i, j \in 1..n : i # j => k[i] # k[j]}} :
           n \in 0..MaxHandlers}

\* A system whose table has some category for a signal's kind is about to
\* look up the handler of a signal of some signature.
InitDispatch ==
    /\ InitEntities
    /\ InitScene
    /\ enabled = [s \in Systems |-> TRUE]
    /\ outcome = "ok"
    /\ args \in [op : {"_retrieve_handler"}, category : Categories,
                  signal_signature : 0..(2^SignatureBits - 1)]
    /\ result = [done |-> FALSE]

\* System._retrieve_handler(signal_id, signal_signature), past the lookup of
\* the category: the handler handle_signals then calls.
find_handler ==
    /\ args.op = "_retrieve_handler"
    /\ ~result.done
    /\ result' = [done |-> TRUE,
                  value |-> first_match(args.category, args.signal_signature, 1)]
    /\ UNCHANGED <<args, outcome, entityVars, registryVars, queueVars,
                   systemVars, loopVars>>

NextDispatch ==
    \/ find_handler

SpecDispatch == InitDispatch /\ [][NextDispatch]_vars

\* ------------------------ specification: the single bits of a signature

\* get_atomic_signatures is about to be called with some signature.
InitAtomic ==
    /\ InitEntities
    /\ InitScene
    /\ enabled = [s \in Systems |-> TRUE]
    /\ outcome = "ok"
    /\ args \in [op : {"get_atomic_signatures"}, signature : 0..MaxSignature]
    /\ result = [done |-> FALSE]

\* The call get_atomic_signatures(signature) and the list it returns.
call_get_atomic_signatures ==
    /\ args.op = "get_atomic_signatures"
    /\ ~result.done
    /\ result' = [done |-> TRUE, value |-> get_atomic_signatures(args.signature)]
    /\ UNCHANGED <<args, outcome, entityVars, registryVars, queueVars,
                   systemVars, loopVars>>

NextAtomic ==
    \/ call_get_atomic_signatures

SpecAtomic == InitAtomic /\ [][NextAtomic]_vars

\* ------------------------------- specification: the registry and its cache

\* An EntityCollection of its own: Players and Traps are added to it and
\* deleted from it (deleting one that is not in it raises KeyError), it is
\* queried, and its cache is cleared, in any order.
InitCache == Init

NextCache ==
    \/ \E e \in Entities : registry_add(e) /\ UNCHANGED callVars
    \/ \E e \in Entities : registry_delete(e) /\ UNCHANGED callVars
    \/ \E sig \in QuerySignatures : filter_by_signature(sig) /\ UNCHANGED callVars
    \/ clear_cache /\ UNCHANGED callVars

SpecCache == InitCache /\ [][NextCache]_vars

\* ================================================================ claims

RECURSIVE OrOfBits(_)
\* The integer whose set bits are the kinds of K.
OrOfBits(K) ==
    IF K = {} THEN 0
    ELSE LET k == CHOOSE x \in K : TRUE IN 2 ^ k + OrOfBits(K \ {k})

\* The kinds of the components an entity holds now.
KindsOwned(e) == {KindOf(c) : c \in Range(components[e])}

\* C4: after any sequence of add_component, remove_component and
\* remove_components calls, an entity's signature is the bitwise OR of the
\* SIGNATURE bits of the components in its list (0 when it has none).
C4_SignatureIsOrOfComponents ==
    \A e \in Entities : signature[e] = OrOfBits(KindsOwned(e))

\* ---- the frame loop and the deferred changes (Spec)

\* A fresh linear scan of the registry for sig.
FreshScan(sig) == SelectSeq(objects, LAMBDA e : BitAnd(signature[e], sig) = sig)

\* The step is the apply phase of a Scene.update call.
ApplyStep == pc = "loop" /\ pc' = "idle"

\* The step is a call that put an entity on one of the pending queues.
QueueingStep ==
    \/ Len(entities_to_add') > Len(entities_to_add)
    \/ Len(entities_to_delete') > Len(entities_to_delete)

\* C1: add_entity and delete_entity leave the registry and every filter
\* result as they are; the registry changes in no step but the apply phase
\* of Scene.update, so the systems of one call all see the registry the call
\* started with; an entity enters the registry only in the apply phase of a
\* call that returns 0; an entity of the registry that waits in the
\* pending-delete queue is still in the registry, with removed set.
C1_StructuralChangeIsDeferred ==
    [][/\ QueueingStep =>
            /\ objects' = objects
            /\ \A sig \in QuerySignatures : filter_result(sig)' = filter_result(sig)
       /\ objects' # objects => ApplyStep
       /\ \A e \in Entities :
            /\ (e \notin Range(objects) /\ e \in Range(objects'))
                   => ApplyStep /\ outcome' = "0" /\ e \in Range(entities_to_add)
            /\ (e \in Range(objects) /\ e \in Range(entities_to_delete'))
                   => e \in Range(objects') /\ removed'[e]
      ]_vars

\* C1's case: inside a system's update, one entity waits to be added and is
\* not in the registry, another is in the registry and waits to be deleted.
C1_Witness ==
    /\ pc = "system"
    /\ \E e \in Range(entities_to_add) : e \notin Range(objects)
    /\ \E e \in Range(entities_to_delete) : e \in Range(objects) /\ removed[e]

\* C3: after a Scene.update call that returned 0, filter_by_signature(S)
\* returns, for every query signature S, single-bit or compound, what a
\* fresh scan of the registry returns.
C3_FilterMatchesRegistryAfterUpdate ==
    (pc = "idle" /\ outcome = "0") =>
        \A sig \in QuerySignatures : filter_result(sig) = FreshScan(sig)

\* C6: when a system's update returns 1, Scene.update returns 1 in the same
\* step: the call is over, no further system was updated, and the pending
\* queues, the registry, the filter cache and the dirty bits are unchanged.
\* A system's update that returns anything else leads back to the loop.
C6_TerminationSentinelEndsUpdate ==
    [][(pc = "system" /\ pc' # "system") =>
          \/ /\ pc' = "loop"
             /\ outcome' = outcome
          \/ /\ pc' = "idle"
             /\ outcome' = "1"
             /\ UNCHANGED <<entities_to_add, entities_to_delete, objects,
                            filter_cache, affected, updated>>
      ]_vars

\* C6's case: Scene.update returned 1 after the first of two systems, with
\* both pending queues non-empty.
C6_Witness ==
    /\ pc = "idle" /\ outcome = "1"
    /\ Len(updated) = 1 /\ Len(systems) = 2
    /\ entities_to_add # <<>>
    /\ entities_to_delete # <<>>

\* The OR of the signatures of the entities of a list.
SignaturesOf(list) == OrOfBits(UNION {{k \in Kinds : BitAnd(signature[e], 2 ^ k) = 2 ^ k} :
                                        e \in Range(list)})

\* C7: in the step in which Scene.update returns 0, the pending deletes are
\* applied before the pending adds (an entity on both queues ends in the
\* registry, the survivors keep their order and the added follow in queue
\* order), both queues end empty, and the cache is cleared if and only if a
\* queue was non-empty: then the dirty bits end 0 and no entry is left for a
\* single bit of the dirty bits; otherwise cache and dirty bits are untouched.
C7_ApplyPhase ==
    [][(ApplyStep /\ outcome' = "0") =>
          LET survivors == SelectSeq(objects, LAMBDA e : e \notin Range(entities_to_delete))
              dirty == BitOr(affected, BitOr(SignaturesOf(entities_to_delete),
                                             SignaturesOf(entities_to_add)))
          IN  /\ objects' = survivors \o
                     SelectSeq(entities_to_add, LAMBDA e : e \notin Range(survivors))
              /\ entities_to_add' = <<>>
              /\ entities_to_delete' = <<>>
              /\ IF entities_to_add = <<>> /\ entities_to_delete = <<>>
                 THEN filter_cache' = filter_cache /\ affected' = affected
                 ELSE /\ affected' = 0
                      /\ \A sig \in QuerySignatures :
                            IF \E k \in Kinds : sig = 2 ^ k /\ BitAnd(dirty, sig) = sig
                            THEN ~filter_cache'[sig].hit
                            ELSE filter_cache'[sig] = filter_cache[sig]
      ]_vars

\* C7's case: a Scene.update call returned 0 after deleting one entity from
\* the registry and adding another.
C7_Witness ==
    /\ pc = "idle" /\ outcome = "0"
    /\ entities_to_add = <<>> /\ entities_to_delete = <<>>
    /\ \E e \in Entities : removed[e] /\ e \notin Range(objects)
    /\ \E e \in Entities : ~removed[e] /\ e \in Range(objects)

\* ---- the registry's cache (SpecCache)

\* The query signatures that are a single bit.
SingleBits == {sig \in QuerySignatures : \E k \in Kinds : sig = 2 ^ k}

\* C2: for every single-bit signature S, whenever no add or delete since the
\* last clear_cache involved an entity with bit S (in particular right after
\* clear_cache, whatever was added, deleted and queried before it),
\* filter_by_signature(S) returns what a fresh scan of the registry returns.
C2_SingleBitFilterAfterFlush ==
    \A sig \in SingleBits :
        BitAnd(affected, sig) = 0 => filter_result(sig) = FreshScan(sig)

\* C2's case: the cache was cleared after the last add (the dirty bits are
\* 0 and the registry is not empty), queries had been cached before the
\* adds (the compound one still holds its old, now wrong, list), an entity
\* was deleted, and a single-bit query made since returns an entity.
C2_Witness ==
    /\ affected = 0
    /\ Len(objects) = 1
    /\ outcome = "ok"
    /\ filter_cache[RenderedSignature].hit
    /\ filter_cache[RenderedSignature].list # FreshScan(RenderedSignature)
    /\ filter_cache[next_signature(Position)].hit
    /\ filter_cache[next_signature(Position)].list = objects

\* ---- the list of systems (SpecSystems)

\* How many times s occurs in a list.
Count(list, s) == Cardinality({i \in 1..Len(list) : list[i] = s})

\* The position of s in a list that holds it once.
IndexOf(list, s) == CHOOSE i \in 1..Len(list) : list[i] = s

\* C5: when a Scene.update call has returned 0, every enabled system of the
\* scene's list had its update called exactly once in that call, and the
\* calls were made in ascending priority order.
C5_EveryEnabledSystemUpdatedOnce ==
    (pc = "idle" /\ outcome = "0") =>
        /\ \A s \in Range(systems) : enabled[s] => Count(updated, s) = 1
        /\ \A i, j \in 1..Len(updated) :
              i < j => PRIORITY(updated[i]) <= PRIORITY(updated[j])

\* C8: the scene's list of systems is sorted ascending by PRIORITY, and two
\* systems of equal priority stand in the order in which they were added.
C8_SystemsSortedStable ==
    \A i, j \in 1..Len(systems) :
        i < j =>
            /\ PRIORITY(systems[i]) <= PRIORITY(systems[j])
            /\ PRIORITY(systems[i]) = PRIORITY(systems[j])
                  => IndexOf(added, systems[i]) < IndexOf(added, systems[j])

\* C8's case: three systems, the one of lowest priority added last and
\* standing first, two of equal priority standing in the order they were
\* added, which is not the order of their numbers; one was deleted before.
C8_Witness ==
    /\ Len(systems) = 3
    /\ added[3] = systems[1]
    /\ PRIORITY(systems[2]) = PRIORITY(systems[3])
    /\ systems[2] > systems[3]
    /\ outcome = "ok"

\* ---- signals (SpecSignals)

\* The step is a propagate_signal call (a signal was constructed for it).
PropagateStep == created' = created + 1

\* C9: a propagate_signal(sender, signal) call appends the signal to the
\* inbox of every system of the scene's list that is not the sender and
\* whose SIGNAL_HANDLERS has an entry for signal.TYPE_ID, and leaves every
\* other inbox, the sender's included, as it was.
C9_SignalIsolation ==
    [][PropagateStep =>
          \A s \in Systems :
              signals'[s] =
                 IF /\ s # propagated'.sender
                    /\ s \in Range(systems)
                    /\ propagated'.signal.type \in DOMAIN SIGNAL_HANDLERS(s)
                 THEN Append(signals[s], propagated'.signal)
                 ELSE signals[s]
      ]_vars

\* The ids of the signals on an inbox.
IdsOn(inbox) == {inbox[i].id : i \in 1..Len(inbox)}

\* C9's case: a system of the list whose table declares MoveEvent sent a
\* MoveEvent and has not got it on its inbox, which holds an earlier
\* MoveEvent that another system sent.
C9_Witness ==
    /\ propagated.sender \in Range(systems)
    /\ propagated.signal.type = MoveEvent
    /\ MoveEvent \in DOMAIN SIGNAL_HANDLERS(propagated.sender)
    /\ propagated.signal.id \notin IdsOn(signals[propagated.sender])
    /\ \E i \in 1..Len(signals[propagated.sender]) :
          /\ signals[propagated.sender][i].type = MoveEvent
          /\ signals[propagated.sender][i].id < propagated.signal.id

\* C10: a propagate_signal call leaves the signal on the inbox of every
\* receiver and calls no handler; a handler is called only in a step of a
\* handle_signals call, by the system that runs it, for the signal that
\* was at the head of that system's inbox before the step.
C10_HandlingIsDeferred ==
    [][/\ PropagateStep =>
            /\ handled' = handled
            /\ handling' = handling
            /\ \A s \in Range(systems) :
                  (s # propagated'.sender
                   /\ propagated'.signal.type \in DOMAIN SIGNAL_HANDLERS(s))
                     => propagated'.signal.id \in IdsOn(signals'[s])
       /\ handled' # handled =>
            /\ ~PropagateStep
            /\ handling # 0
            /\ signals[handling] # <<>>
            /\ Len(handled') = Len(handled) + 1
            /\ SubSeq(handled', 1, Len(handled)) = handled
            /\ handled'[Len(handled')].system = handling
            /\ handled'[Len(handled')].signal = Head(signals[handling]).id
      ]_vars

\* C10's case: a signal was propagated, its receiver's handler has run for
\* it in a handle_signals call that has returned, and nothing is left on
\* the receiver's inbox.
C10_Witness ==
    /\ handling = 0
    /\ \E i \in 1..Len(handled) :
          /\ handled[i].signal = propagated.signal.id
          /\ handled[i].system # propagated.sender
          /\ handled[i].handler = "handle_damage_signal"
          /\ signals[handled[i].system] = <<>>

\* The handler calls system s has made so far, as the ids of their signals.
HandledBy(s) == SelectSeq(handled, LAMBDA h : h.system = s)

\* C11: an inbox changes only by the arrival of a signal at its end or by
\* its system's handle_signals taking the signal at its head; the signal
\* taken is handled by that system in the same step, was not handled by it
\* before and is not on the inbox afterwards; a system's handler is called
\* for nothing but the head of its inbox; and handle_signals returns only
\* with the inbox empty.  So every signal put on the inbox is handled exactly
\* once, oldest first, in the next handle_signals call.
C11_InboxDrainedInOrder ==
    [][\A s \in Systems :
          /\ signals'[s] # signals[s] =>
                \/ /\ PropagateStep
                   /\ signals'[s] = Append(signals[s], propagated'.signal)
                   /\ handled' = handled
                \/ /\ handling = s
                   /\ signals[s] # <<>>
                   /\ signals'[s] = Tail(signals[s])
                   /\ HandledBy(s)' = Append(HandledBy(s), handled'[Len(handled')])
                   /\ handled'[Len(handled')].signal = Head(signals[s]).id
                   /\ \A i \in 1..Len(handled) :
                         ~(handled[i].system = s
                           /\ handled[i].signal = Head(signals[s]).id)
                   /\ Head(signals[s]).id \notin IdsOn(signals'[s])
          /\ HandledBy(s)' # HandledBy(s) =>
                handling = s /\ signals[s] # <<>> /\ signals'[s] = Tail(signals[s])
          /\ (handling = s /\ handling' # s) =>
                signals[s] = <<>> /\ signals'[s] = <<>> /\ outcome' = "ok"
      ]_vars

\* C11's case: a handle_signals call has returned in which a system handled
\* two signals, the older one first, and its inbox is empty.
C11_Witness ==
    /\ handling = 0
    /\ \E s \in Systems :
          /\ Len(HandledBy(s)) >= 2
          /\ HandledBy(s)[1].signal < HandledBy(s)[2].signal
          /\ signals[s] = <<>>
          /\ outcome = "ok"

\* The entries of a category a signal's signature contains the signature of.
Matching(category, sig) ==
    {i \in 1..Len(category) : BitAnd(sig, category[i].signature) = category[i].signature}

\* C12: the handler _retrieve_handler finds in a category for a signal is
\* the one of the first entry, in declaration order, whose signature sub
\* has (signal.signature & sub) = sub, and default_handler if no entry has.
C12_FirstContainedHandler ==
    result.done =>
        LET category == args.category
            fits == Matching(category, args.signal_signature)
        IN  IF fits = {} THEN result.value = "default_handler"
            ELSE \E i \in fits :
                    /\ \A j \in fits : i <= j
                    /\ result.value = category[i].handler

\* C12's case: a signal with signature 12 got the handler registered under 4
\* although one registered under 16 is declared before it.
C12_Witness ==
    /\ result.done
    /\ args.signal_signature = 12
    /\ Len(args.category) = 2
    /\ args.category[1].signature = 16
    /\ args.category[2].signature = 4
    /\ result.value = args.category[2].handler

\* C13: when handle_signals takes from the inbox a signal whose TYPE_ID has
\* no entry in the system's SIGNAL_HANDLERS, it calls default_handler for
\* it, raises nothing and goes on with the inbox.
C13_UnknownKindGetsDefaultHandler ==
    [][(/\ handling # 0
        /\ signals[handling] # <<>>
        /\ Head(signals[handling]).type \notin DOMAIN SIGNAL_HANDLERS(handling)
        /\ signals'[handling] # signals[handling]) =>
            /\ handled' = Append(handled,
                                 [system |-> handling,
                                  signal |-> Head(signals[handling]).id,
                                  handler |-> "default_handler"])
            /\ handling' = handling
            /\ outcome' # "KeyError"
      ]_vars

\* Whether list a is the beginning of list b.
IsPrefix(a, b) == Len(a) <= Len(b) /\ SubSeq(b, 1, Len(a)) = a

\* C14: over a step before and after which a system is disabled, Scene.update
\* does not call its update, its handle_signals is not running, its inbox
\* loses nothing, and it stays in the scene's list, which stays sorted by
\* priority; a propagate_signal call of another system still appends a
\* signal whose kind the system's table declares to its inbox.
C14_DisabledSystemOnlyReceives ==
    [][\A s \in Systems :
          (~enabled[s] /\ ~enabled'[s]) =>
              /\ cur' # s
              /\ (updated' # updated /\ updated' # <<>>) =>
                     updated'[Len(updated')] # s
              /\ handling' # s
              /\ HandledBy(s)' = HandledBy(s)
              /\ IsPrefix(signals[s], signals'[s])
              /\ s \in Range(systems) => s \in Range(systems')
              /\ \A i \in 1..(Len(systems') - 1) :
                     PRIORITY(systems'[i]) <= PRIORITY(systems'[i + 1])
              /\ (/\ PropagateStep
                  /\ s \in Range(systems)
                  /\ s # propagated'.sender
                  /\ propagated'.signal.type \in DOMAIN SIGNAL_HANDLERS(s)) =>
                     signals'[s] = Append(signals[s], propagated'.signal)
      ]_vars

\* C14's case: a Scene.update call has returned 0 that updated an enabled
\* system and not a disabled system of the list, whose inbox holds two
\* signals sent to it.
C14_Witness ==
    /\ pc = "idle"
    /\ outcome = "0"
    /\ \E s \in Range(systems) :
          /\ ~enabled[s]
          /\ s \notin Range(updated)
          /\ Len(signals[s]) = 2
          /\ HandledBy(s) = <<>>
          /\ updated # <<>>

\* C15: a delete_entity call on an entity whose removed flag is set changes
\* nothing of the scene, its entities and its systems; a call on an entity
\* whose flag is not set sets it and appends the entity to the pending-delete
\* queue; the flag, once set, stays set, and no step puts an entity whose
\* flag is set on the queue, which never holds an entity twice.
C15_DeleteEntityIdempotent ==
    [][\A e \in Entities :
          /\ (delete_entity(e) /\ removed[e]) =>
                UNCHANGED <<entityVars, registryVars, queueVars, systemVars, loopVars>>
          /\ (delete_entity(e) /\ ~removed[e]) =>
                /\ removed'[e]
                /\ entities_to_delete' = Append(entities_to_delete, e)
          /\ removed[e] => removed'[e]
          /\ Count(entities_to_delete', e) > Count(entities_to_delete, e) => ~removed[e]
          /\ Count(entities_to_delete', e) <= 1
      ]_vars

\* C15's case: inside a system's update an entity was asked to be deleted
\* and another one after it; the first is on the queue once, with its flag
\* set, where a further delete_entity call on it can follow.
C15_Witness ==
    /\ pc = "system"
    /\ outcome = "ok"
    /\ Len(entities_to_delete) = 2
    /\ removed[entities_to_delete[1]]
    /\ Count(entities_to_delete, entities_to_delete[1]) = 1
    /\ entities_to_delete[1] \in Range(objects)

\* What filter_by_signature(sig) returns if clear_cache is called first.
FilterAfterFlush(sig) ==
    LET cache == cleared(filter_cache, affected)
    IN  IF cache[sig].hit THEN cache[sig].list ELSE collection_filter(objects, sig)

\* C16: in every state, for an entity of the registry that has no component
\* of kind K (any more), a clear_cache call followed by
\* filter_by_component_type(K) returns a list without the entity.
C16_FlushForgetsRemovedComponent ==
    \A e \in Range(objects), k \in Kinds :
        (2 ^ k \in QuerySignatures /\ k \notin KindsOwned(e)) =>
            e \notin Range(FilterAfterFlush(2 ^ k))

\* list without the first occurrence of the instance c itself.
WithoutInstance(list, c) ==
    RemoveAt(list, CHOOSE i \in 1..Len(list) :
                      list[i] = c /\ \A j \in 1..(i - 1) : list[j] # c)

\* C17: a remove_component(c) call on an entity that owns the instance c
\* takes exactly that instance out of entity.components, every other
\* component keeping its place and order, and leaves in entity.signature
\* the bit of every kind that still has a component in the list, the kind
\* of c included.
C17_RemoveByIdentity ==
    [][\A c \in Range(components[1]) :
          remove_component(1, c) =>
              /\ components'[1] = WithoutInstance(components[1], c)
              /\ \A d \in Range(components'[1]) :
                    BitAnd(signature'[1], SIGNATURE(d)) = SIGNATURE(d)
      ]_vars

\* The step is a call of one of the two queries of an entity by signature.
QueryStep == args' # args \/ result' # result

\* The earliest component of a list that satisfies Fits (0: none does).
Earliest(list, Fits(_)) ==
    IF \E i \in 1..Len(list) : Fits(list[i])
    THEN list[CHOOSE i \in 1..Len(list) :
                 Fits(list[i]) /\ \A j \in 1..(i - 1) : ~Fits(list[j])]
    ELSE 0

\* What the two queries return if Fits tells the components to return.
QueriesReturn(Fits(_, _)) ==
    LET list == components[args'.entity]
        Wanted(c) == Fits(c, args'.signature)
    IN  /\ args'.op = "get_components_by_signature" =>
               result'.value = SelectSeq(list, Wanted)
        /\ args'.op = "get_component_by_signature" =>
               result'.value = Earliest(list, Wanted)

\* C18 as stated: get_components_by_signature(sig) returns, in insertion
\* order, the owned components c with (c.SIGNATURE & sig) = sig, and
\* get_component_by_signature(sig) the earliest of them, or None.
C18_ComponentsContainingSignature ==
    [][QueryStep =>
          QueriesReturn(LAMBDA c, sig : BitAnd(SIGNATURE(c), sig) = sig)]_vars

\* C18 amended: get_components_by_signature(sig) returns, in insertion
\* order, the owned components c with (sig & c.SIGNATURE) = c.SIGNATURE,
\* those whose kind's bit is set in sig, and get_component_by_signature(sig)
\* the earliest of them, or None.
C18_ComponentsWithinSignature ==
    [][QueryStep =>
          QueriesReturn(LAMBDA c, sig : BitAnd(sig, SIGNATURE(c)) = SIGNATURE(c))]_vars

\* C18's case: an entity that owns components of three kinds was asked for
\* those of two kinds and returned two components, in insertion order.
C18_Witness ==
    /\ args.op = "get_components_by_signature"
    /\ result.done
    /\ Len(get_atomic_signatures(args.signature)) = 2
    /\ Len(components[1]) = 3
    /\ Len(result.value) = 2
    /\ result.value = SelectSeq(components[1], LAMBDA c : c \in Range(result.value))
    /\ KindOf(result.value[1]) # KindOf(result.value[2])

\* C19: no Scene.update call ends with an exception raised by its apply
\* phase, and when a call has returned 0 the registry holds no entity whose
\* removed flag is set.
C19_ApplyPhaseNeverFails ==
    /\ outcome # "KeyError"
    /\ (pc = "idle" /\ outcome = "0") =>
           \A e \in Range(objects) : ~removed[e]

\* C20: while a system's handle_signals is running, handlers that propagate
\* signals with that system as the sender included, every step either takes
\* one signal off the system's inbox and calls one handler for it, or leaves
\* the inbox and the handler log as they are; the inbox never grows, and the
\* call ends only with the inbox empty, normally.  So the loop makes as many
\* turns as the inbox held signals when handle_signals was called.
C20_DrainTerminates ==
    [][handling # 0 =>
          /\ handling' \in {handling, 0}
          /\ Len(signals'[handling]) <= Len(signals[handling])
          /\ \/ /\ signals'[handling] = signals[handling]
                /\ handled' = handled
             \/ /\ handling' = handling
                /\ signals'[handling] = Tail(signals[handling])
                /\ Len(handled') = Len(handled) + 1
          /\ handling' = 0 =>
                signals[handling] = <<>> /\ outcome' = "ok"
      ]_vars

\* C20's case: a system of the list is draining its inbox and has handled
\* a signal; a handler it called has propagated a signal of a kind the
\* system's own table declares, and the system has not got it.
C20_Witness ==
    /\ handling # 0
    /\ propagated.during = handling
    /\ propagated.sender = handling
    /\ propagated.signal.type \in DOMAIN SIGNAL_HANDLERS(handling)
    /\ handling \in Range(systems)
    /\ HandledBy(handling) # <<>>
    /\ propagated.signal.id \notin IdsOn(signals[handling])

\* The step deletes a cache entry or resets a dirty accumulator: only
\* clear_cache does.
ClearStep ==
    \/ \E sig \in QuerySignatures : filter_cache[sig].hit /\ ~filter_cache'[sig].hit
    \/ affected # 0 /\ affected' = 0

\* The step changes the registry's entity map or adds dirty bits: only the
\* registry's add and delete do.
RegistryStep == objects' # objects \/ (affected' # affected /\ affected' # 0)

\* C21: a clear_cache call deletes the cache entries whose key is a single
\* bit that is set in the accumulator, keeps every other entry as it is,
\* keeps the entity map and leaves the accumulator 0; an add or delete on the
\* registry ORs the signature of its entity into the accumulator, changes
\* the entity map by that entity at most, and keeps every cache entry.
C21_ClearCacheFrame ==
    [][/\ ClearStep =>
            /\ \A sig \in QuerySignatures :
                  filter_cache'[sig] =
                     IF (\E k \in Kinds : sig = 2 ^ k) /\ BitAnd(affected, sig) = sig
                     THEN NoEntry
                     ELSE filter_cache[sig]
            /\ objects' = objects
            /\ affected' = 0
       /\ RegistryStep =>
            /\ filter_cache' = filter_cache
            /\ \E e \in Entities :
                  /\ affected' = BitOr(affected, signature[e])
                  /\ \/ objects' = objects
                     \/ objects' = Append(objects, e)
                     \/ objects' = SelectSeq(objects, LAMBDA x : x # e)
      ]_vars

\* C21's case: RenderingSystem's compound query was cached while the
\* registry was empty, a Player was added and the cache was cleared: the
\* accumulator is 0, the compound entry is still there with its empty list,
\* and the single-bit entries are gone.
C21_Witness ==
    /\ objects = <<1>>
    /\ signature[1] = calculate_signature(Player)
    /\ affected = 0
    /\ filter_cache[RenderedSignature] = [hit |-> TRUE, list |-> <<>>]
    /\ ~filter_cache[next_signature(Position)].hit
    /\ ~filter_cache[next_signature(PlayerController)].hit

RECURSIVE IsPowerOfTwo(_)
\* Whether p >= 1 is 1, 2, 4, 8, ...
IsPowerOfTwo(p) == p = 1 \/ (p % 2 = 0 /\ IsPowerOfTwo(p \div 2))

\* The powers of two up to n.
PowersOfTwo(n) == {p \in 1..n : IsPowerOfTwo(p)}

RECURSIVE SumOf(_)
\* The sum of a list of numbers (the bitwise OR, for distinct single bits).
SumOf(list) == IF list = <<>> THEN 0 ELSE Head(list) + SumOf(Tail(list))

\* C22: for a signature s >= 0, the list get_atomic_signatures(s) returns is
\* strictly ascending, holds exactly the powers of two p with (s & p) = p,
\* its elements OR to s, and it is empty for s = 0.
C22_AtomicSignatures ==
    result.done =>
        LET s == args.signature
            list == result.value
        IN  /\ \A i \in 1..(Len(list) - 1) : list[i] < list[i + 1]
            /\ Range(list) = {p \in PowersOfTwo(s) : BitAnd(s, p) = p}
            /\ SumOf(list) = s
            /\ s = 0 => list = <<>>

\* C22's case: a signature that is a single bit, the largest atom the loop
\* reaches, and one of three bits were decomposed.
C22_Witness ==
    /\ result.done
    /\ \/ args.signature = 64 /\ result.value = <<64>>
       \/ args.signature = 13 /\ result.value = <<1, 4, 8>>

=============================================================================
